---- MODULE Spec2Model ----
(***************************************************************************)
(* Model of src/creational/factoryMethod/factoryMethod.go, which holds two *)
(* independent demonstrations:                                             *)
(*   - package factoryMethod: Phone, Android, Google (lines 30-85);        *)
(*   - package composite: Soldier and its five implementations, Division,  *)
(*     Brigade, Platoon, Squad and Enlisted (lines 116-238).               *)
(* Objects live on a heap (a sequence; an object's reference is its index).*)
(* What fmt.Println writes is kept as a sequence of notifications.         *)
(***************************************************************************)
EXTENDS Integers, Sequences, FiniteSets, TLC

VARIABLES
    phones,     \* factoryMethod heap: <<[type, status, os]>>, one per device
    printed,    \* lines written to standard output by the devices, in order
    pcalls,     \* the last two calls made on the devices, the latest last
    ret,        \* what the latest GetOS call returned ("" before any)
    heap,       \* composite heap: one object per constructed Soldier
    call,       \* the latest public call made on the composite package
    out,        \* notifications written by the latest composite call, in order
    depth,      \* deepest nesting of Brief frames in the latest composite call
    crashed     \* the goroutine's stack grew past the runtime's limit

pvars == <<phones, printed, pcalls, ret>>
cvars == <<heap, call, out, depth, crashed>>
vars == <<phones, printed, pcalls, ret, heap, call, out, depth, crashed>>

(***************************************************************************)
(* Bounds of the model.                                                    *)
(***************************************************************************)
MaxPhones == 2      \* devices constructed in one run
MaxPrinted == 4     \* lines the devices write in one run
MaxNodes == 2       \* Soldiers constructed in one run
MaxArgs == 2        \* arguments of one variadic Add call
MaxEdges == 2       \* child references held by all containers together
MaxStack == 6       \* Brief frames the stack holds before the runtime gives up

Names == {"alpha"}
Orders == {"Move out", "Hold"}

\* Sequences over S of length 0..n.
RECURSIVE SeqsUpTo(_, _)
SeqsUpTo(S, n) ==
    IF n = 0 THEN {<<>>}
    ELSE LET shorter == SeqsUpTo(S, n - 1)
         IN shorter \cup {Append(s, x) : s \in {t \in shorter : Len(t) = n - 1}, x \in S}

Max(a, b) == IF a >= b THEN a ELSE b

(***************************************************************************)
(* package factoryMethod                                                   *)
(***************************************************************************)
\* Phone.GetOS: return p.os
PhoneGetOS(p) == p.os

\* Phone.TurnOn with its early return left out.
TurnOnEmitsAlways(p) ==
    [phone |-> [p EXCEPT !.status = "on"], lines |-> <<"Turning phone on">>]

\* Phone.TurnOn on the object p: the object afterwards and the lines written.
PhoneTurnOn(p) ==
    IF p.status = "on"
    THEN [phone |-> p, lines |-> <<>>]
    ELSE [phone |-> [p EXCEPT !.status = "on"], lines |-> <<"Turning phone on">>]

\* Phone.TurnOff on the object p.
PhoneTurnOff(p) ==
    IF p.status = "off"
    THEN [phone |-> p, lines |-> <<>>]
    ELSE [phone |-> [p EXCEPT !.status = "off"], lines |-> <<"Turning phone off">>]

\* NewGoogle with the os of NewAndroid copied into it.
GoogleAsAndroid == [type |-> "Google", os |-> "android", status |-> "off"]

\* The objects the two constructors build.
AndroidObject == [type |-> "Android", os |-> "android", status |-> "off"]

GoogleObject == [type |-> "Google", os |-> "google", status |-> "off"]

Record(c) == IF pcalls = <<>> THEN <<c>> ELSE <<pcalls[Len(pcalls)], c>>

NewAndroid ==
    /\ Len(phones) < MaxPhones
    /\ phones' = Append(phones, AndroidObject)
    /\ pcalls' = Record([op |-> "NewAndroid", phone |-> Len(phones) + 1])
    /\ UNCHANGED <<printed, ret>>

NewGoogle ==
    /\ Len(phones) < MaxPhones
    /\ phones' = Append(phones, GoogleObject)
    /\ pcalls' = Record([op |-> "NewGoogle", phone |-> Len(phones) + 1])
    /\ UNCHANGED <<printed, ret>>

GetOS(i) ==
    /\ ret' = PhoneGetOS(phones[i])
    /\ pcalls' = Record([op |-> "GetOS", phone |-> i])
    /\ UNCHANGED <<phones, printed>>

TurnOn(i) ==
    LET r == PhoneTurnOn(phones[i]) IN
    /\ Len(printed) < MaxPrinted
    /\ phones' = [phones EXCEPT ![i] = r.phone]
    /\ printed' = printed \o r.lines
    /\ pcalls' = Record([op |-> "TurnOn", phone |-> i])
    /\ UNCHANGED ret

TurnOff(i) ==
    LET r == PhoneTurnOff(phones[i]) IN
    /\ Len(printed) < MaxPrinted
    /\ phones' = [phones EXCEPT ![i] = r.phone]
    /\ printed' = printed \o r.lines
    /\ pcalls' = Record([op |-> "TurnOff", phone |-> i])
    /\ UNCHANGED ret

(***************************************************************************)
(* package composite                                                       *)
(***************************************************************************)
\* One line written by fmt.Println; "by" is the object whose method wrote it.
Note(n, text) == [by |-> n, text |-> text]

\* What a Brief call does: the lines it wrote, whether it returned (ok) or
\* the stack overflowed, and the deepest frame it reached.
Returned(lines, deep) == [out |-> lines, ok |-> TRUE, deep |-> deep]
Overflow(lines, deep) == [out |-> lines, ok |-> FALSE, deep |-> deep]

RECURSIVE SoldierBrief(_, _, _)
RECURSIVE BriefEach(_, _, _)

\* for _, s := range soldiers { s.Brief(orders) }, run by a frame at depth d.
BriefEach(soldiers, orders, d) ==
    IF soldiers = <<>> THEN Returned(<<>>, d)
    ELSE LET first == SoldierBrief(Head(soldiers), orders, d + 1) IN
         IF ~first.ok THEN first
         ELSE LET rest == BriefEach(Tail(soldiers), orders, d) IN
              [out |-> first.out \o rest.out, ok |-> rest.ok,
               deep |-> Max(first.deep, rest.deep)]

\* The container's own line follows the loop (a frame that never returns
\* from the loop writes nothing more).
Summary(n, message, loop) ==
    IF loop.ok THEN Returned(Append(loop.out, Note(n, message)), loop.deep) ELSE loop

\* Division.Brief writing its summary before it briefs the brigades.
DivisionBriefSummaryFirst(n, orders, d) ==
    LET message == "Briefing " \o ToString(Len(heap[n].brigades)) \o " Brigades"
        loop == BriefEach(heap[n].brigades, orders, d)
    IN [loop EXCEPT !.out = <<Note(n, message)>> \o loop.out]

\* Division.Brief counting every line written below it.
DivisionBriefCountsAll(n, orders, d) ==
    LET loop == BriefEach(heap[n].brigades, orders, d)
        message == "Briefing " \o ToString(Len(loop.out)) \o " Brigades"
    IN Summary(n, message, loop)

DivisionBrief(n, orders, d) ==
    LET message == "Briefing " \o ToString(Len(heap[n].brigades)) \o " Brigades"
    IN Summary(n, message, BriefEach(heap[n].brigades, orders, d))

BrigadeBrief(n, orders, d) ==
    LET message == "Briefing " \o ToString(Len(heap[n].platoons)) \o " Platoons"
    IN Summary(n, message, BriefEach(heap[n].platoons, orders, d))

\* Platoon.Brief with the wording of Brigade.Brief copied into it.
PlatoonBriefWrongWord(n, orders, d) ==
    LET message == "Briefing " \o ToString(Len(heap[n].squads)) \o " Platoons"
    IN Summary(n, message, BriefEach(heap[n].squads, orders, d))

PlatoonBrief(n, orders, d) ==
    LET message == "Briefing " \o ToString(Len(heap[n].squads)) \o " Squads"
    IN Summary(n, message, BriefEach(heap[n].squads, orders, d))

\* Squad.Brief with a loop that starts at the second enlistee.
SquadBriefSkipsFirst(n, orders, d) ==
    LET message == "Briefing " \o ToString(Len(heap[n].enlistees)) \o " Enlistees"
        rest == IF heap[n].enlistees = <<>> THEN <<>> ELSE Tail(heap[n].enlistees)
    IN Summary(n, message, BriefEach(rest, orders, d))

SquadBrief(n, orders, d) ==
    LET message == "Briefing " \o ToString(Len(heap[n].enlistees)) \o " Enlistees"
    IN Summary(n, message, BriefEach(heap[n].enlistees, orders, d))

EnlistedBrief(n, orders, d) == Returned(<<Note(n, orders)>>, d)

\* A call through the Soldier interface: the frame at depth d is pushed if the
\* stack has room for it, and the method of the object's own type runs.
SoldierBrief(n, orders, d) ==
    IF d > MaxStack THEN Overflow(<<>>, MaxStack)
    ELSE CASE heap[n].type = "Division" -> DivisionBrief(n, orders, d)
           [] heap[n].type = "Brigade"  -> BrigadeBrief(n, orders, d)
           [] heap[n].type = "Platoon"  -> PlatoonBrief(n, orders, d)
           [] heap[n].type = "Squad"    -> SquadBrief(n, orders, d)
           [] heap[n].type = "Enlisted" -> EnlistedBrief(n, orders, d)

DivisionAdd(o, brigades) == [o EXCEPT !.brigades = o.brigades \o brigades]

BrigadeAdd(o, platoons) == [o EXCEPT !.platoons = o.platoons \o platoons]

PlatoonAdd(o, squads) == [o EXCEPT !.squads = o.squads \o squads]

SquadAdd(o, enlistees) == [o EXCEPT !.enlistees = o.enlistees \o enlistees]

\* Enlisted.Add keeping what it is given, as the containers do.
EnlistedAddKeeps(o, enlistees) ==
    [type |-> o.type, name |-> o.name, enlistees |-> enlistees]

EnlistedAdd(o, enlistees) == o

SoldierAdd(o, component) ==
    CASE o.type = "Division" -> DivisionAdd(o, component)
      [] o.type = "Brigade"  -> BrigadeAdd(o, component)
      [] o.type = "Platoon"  -> PlatoonAdd(o, component)
      [] o.type = "Squad"    -> SquadAdd(o, component)
      [] o.type = "Enlisted" -> EnlistedAdd(o, component)

\* The child references an object holds, whatever its type.
Kids(o) ==
    CASE o.type = "Division" -> o.brigades
      [] o.type = "Brigade"  -> o.platoons
      [] o.type = "Platoon"  -> o.squads
      [] o.type = "Squad"    -> o.enlistees
      [] o.type = "Enlisted" -> <<>>

RECURSIVE SumLen(_, _)
SumLen(h, i) == IF i = 0 THEN 0 ELSE Len(Kids(h[i])) + SumLen(h, i - 1)
Edges == SumLen(heap, Len(heap))

Called(op, n, args, orders) == [op |-> op, node |-> n, args |-> args, orders |-> orders]

Construct(o) ==
    /\ ~crashed
    /\ heap' = Append(heap, o)
    /\ call' = Called("New", Len(heap) + 1, <<>>, "")
    /\ out' = <<>>
    /\ depth' = 0
    /\ UNCHANGED crashed

NewDivision(name) == Construct([type |-> "Division", name |-> name, brigades |-> <<>>])

NewBrigade(name) == Construct([type |-> "Brigade", name |-> name, platoons |-> <<>>])

NewPlatoon(name) == Construct([type |-> "Platoon", name |-> name, squads |-> <<>>])

NewSquad(name) == Construct([type |-> "Squad", name |-> name, enlistees |-> <<>>])

NewEnlisted(name) == Construct([type |-> "Enlisted", name |-> name])

Add(n, component) ==
    /\ ~crashed
    /\ heap' = [heap EXCEPT ![n] = SoldierAdd(heap[n], component)]
    /\ call' = Called("Add", n, component, "")
    /\ out' = <<>>
    /\ depth' = 0
    /\ UNCHANGED crashed

\* Brief leaving the orders behind in the object it was called on.
BriefRemembers(n, orders) ==
    LET r == SoldierBrief(n, orders, 1) IN
    /\ ~crashed
    /\ call' = Called("Brief", n, <<>>, orders)
    /\ out' = r.out
    /\ depth' = r.deep
    /\ crashed' = ~r.ok
    /\ heap' = [heap EXCEPT ![n].name = orders]

Brief(n, orders) ==
    LET r == SoldierBrief(n, orders, 1) IN
    /\ ~crashed
    /\ call' = Called("Brief", n, <<>>, orders)
    /\ out' = r.out
    /\ depth' = r.deep
    /\ crashed' = ~r.ok
    /\ UNCHANGED heap

Init ==
    /\ phones = <<>>
    /\ printed = <<>>
    /\ pcalls = <<>>
    /\ ret = ""
    /\ heap = <<>>
    /\ call = Called("none", 0, <<>>, "")
    /\ out = <<>>
    /\ depth = 0
    /\ crashed = FALSE

NextPhone ==
    \/ NewAndroid /\ UNCHANGED cvars
    \/ NewGoogle /\ UNCHANGED cvars
    \/ \E i \in 1..Len(phones) : GetOS(i) /\ UNCHANGED cvars
    \/ \E i \in 1..Len(phones) : TurnOn(i) /\ UNCHANGED cvars
    \/ \E i \in 1..Len(phones) : TurnOff(i) /\ UNCHANGED cvars

SpecPhone == Init /\ [][NextPhone]_vars

OfType(t) == {n \in 1..Len(heap) : heap[n].type = t}
Min(a, b) == IF a <= b THEN a ELSE b

(***************************************************************************)
(* SpecTree: a driver that constructs any Soldiers and passes any of them, *)
(* in any number and any order, to any Add: the Soldier interface accepts  *)
(* every one of these calls.                                               *)
(***************************************************************************)
Rank(t) ==
    CASE t = "Division" -> 1
      [] t = "Brigade"  -> 2
      [] t = "Platoon"  -> 3
      [] t = "Squad"    -> 4
      [] t = "Enlisted" -> 5

\* Objects are interchangeable up to their references, so the driver constructs
\* them in rank order; what it may pass to Add is not restricted.
InOrder(t) ==
    /\ Len(heap) < MaxNodes
    /\ IF heap = <<>> THEN TRUE ELSE Rank(heap[Len(heap)].type) <= Rank(t)

Refs == SeqsUpTo(1..Len(heap), Min(MaxArgs, MaxEdges - Edges))

NextTree ==
    \/ \E name \in Names : InOrder("Division") /\ NewDivision(name) /\ UNCHANGED pvars
    \/ \E name \in Names : InOrder("Brigade") /\ NewBrigade(name) /\ UNCHANGED pvars
    \/ \E name \in Names : InOrder("Platoon") /\ NewPlatoon(name) /\ UNCHANGED pvars
    \/ \E name \in Names : InOrder("Squad") /\ NewSquad(name) /\ UNCHANGED pvars
    \/ \E name \in Names : InOrder("Enlisted") /\ NewEnlisted(name) /\ UNCHANGED pvars
    \/ \E n \in OfType("Division"), c \in Refs : Add(n, c) /\ UNCHANGED pvars
    \/ \E n \in OfType("Brigade"), c \in Refs : Add(n, c) /\ UNCHANGED pvars
    \/ \E n \in OfType("Platoon"), c \in Refs : Add(n, c) /\ UNCHANGED pvars
    \/ \E n \in OfType("Squad"), c \in Refs : Add(n, c) /\ UNCHANGED pvars
    \/ \E n \in OfType("Enlisted"), c \in Refs : Add(n, c) /\ UNCHANGED pvars
    \/ \E n \in OfType("Division"), o \in Orders : Brief(n, o) /\ UNCHANGED pvars
    \/ \E n \in OfType("Brigade"), o \in Orders : Brief(n, o) /\ UNCHANGED pvars
    \/ \E n \in OfType("Platoon"), o \in Orders : Brief(n, o) /\ UNCHANGED pvars
    \/ \E n \in OfType("Squad"), o \in Orders : Brief(n, o) /\ UNCHANGED pvars
    \/ \E n \in OfType("Enlisted"), o \in Orders : Brief(n, o) /\ UNCHANGED pvars

SpecTree == Init /\ [][NextTree]_vars

(***************************************************************************)
(* SpecHierarchy: a driver that builds hierarchies out of the roster of the*)
(* example scenario.  It constructs the six Soldiers in roster order and   *)
(* adds a Soldier only below a container of higher rank, and only once.    *)
(***************************************************************************)
Owned == UNION {{Kids(heap[m])[i] : i \in 1..Len(Kids(heap[m]))} : m \in 1..Len(heap)}
Free == (1..Len(heap)) \ Owned
Distinct(c) == \A i, j \in 1..Len(c) : i # j => c[i] # c[j]
Recruits(n) ==
    {c \in SeqsUpTo({m \in Free : Rank(heap[m].type) > Rank(heap[n].type)}, MaxArgs) :
        Distinct(c)}
Bystanders(n) == {c \in SeqsUpTo(Free \ {n}, MaxArgs) : Distinct(c)}

NextHierarchy ==
    \/ Len(heap) = 0 /\ NewDivision("1st") /\ UNCHANGED pvars
    \/ Len(heap) = 1 /\ NewBrigade("A") /\ UNCHANGED pvars
    \/ Len(heap) = 2 /\ NewPlatoon("1") /\ UNCHANGED pvars
    \/ Len(heap) = 3 /\ NewSquad("alpha") /\ UNCHANGED pvars
    \/ Len(heap) = 4 /\ NewEnlisted("Smith") /\ UNCHANGED pvars
    \/ Len(heap) = 5 /\ NewEnlisted("Jones") /\ UNCHANGED pvars
    \/ \E n \in OfType("Division") : \E c \in Recruits(n) : Add(n, c) /\ UNCHANGED pvars
    \/ \E n \in OfType("Brigade") : \E c \in Recruits(n) : Add(n, c) /\ UNCHANGED pvars
    \/ \E n \in OfType("Platoon") : \E c \in Recruits(n) : Add(n, c) /\ UNCHANGED pvars
    \/ \E n \in OfType("Squad") : \E c \in Recruits(n) : Add(n, c) /\ UNCHANGED pvars
    \/ \E n \in OfType("Enlisted") : \E c \in Bystanders(n) : Add(n, c) /\ UNCHANGED pvars
    \/ \E n \in OfType("Division"), o \in Orders : Brief(n, o) /\ UNCHANGED pvars
    \/ \E n \in OfType("Brigade"), o \in Orders : Brief(n, o) /\ UNCHANGED pvars
    \/ \E n \in OfType("Platoon"), o \in Orders : Brief(n, o) /\ UNCHANGED pvars
    \/ \E n \in OfType("Squad"), o \in Orders : Brief(n, o) /\ UNCHANGED pvars
    \/ \E n \in OfType("Enlisted"), o \in Orders : Brief(n, o) /\ UNCHANGED pvars

SpecHierarchy == Init /\ [][NextHierarchy]_vars

(***************************************************************************)
(* Vocabulary of the properties.                                           *)
(***************************************************************************)
Latest == pcalls[Len(pcalls)]
OsOf(type) == IF type = "Android" THEN "android" ELSE "google"

Types == {"Division", "Brigade", "Platoon", "Squad", "Enlisted"}
Levels == Cardinality(Types)

Nodes == 1..Len(heap)
KidSet(h, n) == {Kids(h[n])[i] : i \in 1..Len(Kids(h[n]))}
RECURSIVE Closure(_, _, _)
Closure(h, S, k) ==
    IF k = 0 THEN S ELSE Closure(h, S \cup UNION {KidSet(h, m) : m \in S}, k - 1)
\* The objects below n, and n with them.
Desc(n) == Closure(heap, KidSet(heap, n), Len(heap))
Sub(n) == {n} \cup Desc(n)
\* How many child references, of all containers in S, point at x.
Occurrences(S, x) ==
    Cardinality(UNION {{<<m, i>> : i \in {j \in 1..Len(Kids(heap[m])) : Kids(heap[m])[j] = x}} :
                          m \in S})
\* The objects reachable from n form a tree with root n.
TreeBelow(n) ==
    /\ \A m \in Sub(n) : m \notin Desc(m)
    /\ \A x \in Desc(n) : Occurrences(Sub(n), x) = 1
LeavesBelow(n) == {l \in Sub(n) : heap[l].type = "Enlisted"}
\* Where in out the lines written by object x stand.
Pos(x) == {k \in 1..Len(out) : out[k].by = x}
Texts(lines) == [k \in 1..Len(lines) |-> lines[k].text]
Briefed == call.op = "Brief" /\ ~crashed
TypeWord(t) ==
    CASE t = "Division" -> "Brigades"
      [] t = "Brigade"  -> "Platoons"
      [] t = "Platoon"  -> "Squads"
      [] t = "Squad"    -> "Enlistees"
SummaryText(t, count) == "Briefing " \o ToString(count) \o " " \o TypeWord(t)

(***************************************************************************)
(* C1.  A TurnOn or TurnOff call writes a line if and only if it changes   *)
(* the power state: a call on a device already in the state asked for      *)
(* writes nothing and changes nothing, any other call writes exactly one   *)
(* line and changes that device alone; so the second of two TurnOn (or two *)
(* TurnOff) calls in a row on one device writes nothing.                   *)
(***************************************************************************)
C1Step ==
    (pcalls' # <<>> /\ pcalls'[Len(pcalls')].op \in {"TurnOn", "TurnOff"}) =>
        LET c == pcalls'[Len(pcalls')]
            i == c.phone
            target == IF c.op = "TurnOn" THEN "on" ELSE "off"
        IN  /\ phones'[i].status = target
            /\ \A j \in 1..Len(phones) : j # i => phones'[j] = phones[j]
            /\ IF phones[i].status = target
               THEN printed' = printed /\ phones' = phones
               ELSE /\ Len(printed') = Len(printed) + 1
                    /\ SubSeq(printed', 1, Len(printed)) = printed
            /\ (pcalls # <<>> /\ Latest = c) => printed' = printed
C1_IdempotentPower == [][C1Step]_vars

\* Device 1 was turned on twice in a row from off, and one line stands.
C1_Witness ==
    /\ pcalls = <<[op |-> "TurnOn", phone |-> 1], [op |-> "TurnOn", phone |-> 1]>>
    /\ printed = <<"Turning phone on">>
    /\ phones[1].status = "on"

(***************************************************************************)
(* C2.  Every device reports the OS identity of its own variant, whatever  *)
(* calls were made: the os field is the one its constructor set, GetOS     *)
(* returns it, devices of different variants differ in it, and a device    *)
(* just constructed is off.                                                *)
(***************************************************************************)
C2_VariantIdentity ==
    \A i \in 1..Len(phones) :
        /\ phones[i].os = OsOf(phones[i].type)
        /\ (Latest.op = "GetOS" /\ Latest.phone = i) => ret = OsOf(phones[i].type)
        /\ (Latest.op \in {"NewAndroid", "NewGoogle"} /\ Latest.phone = i) =>
                phones[i].status = "off"
        /\ \A j \in 1..Len(phones) :
                phones[i].type # phones[j].type => phones[i].os # phones[j].os

\* Both variants exist, the Google device is on and GetOS was just called on it.
C2_Witness ==
    /\ Len(phones) = 2
    /\ phones[1].type = "Android"
    /\ phones[2].type = "Google"
    /\ phones[2].status = "on"
    /\ Latest = [op |-> "GetOS", phone |-> 2]
    /\ ret = "google"

(***************************************************************************)
(* C3.  When the objects below the briefed node form a tree, a Brief call  *)
(* that returned wrote exactly one line per Enlisted of the tree, that line*)
(* is the order itself, and no Enlisted outside the tree wrote anything.   *)
(***************************************************************************)
C3_BroadcastComplete ==
    (Briefed /\ TreeBelow(call.node)) =>
        /\ \A l \in LeavesBelow(call.node) :
                Cardinality(Pos(l)) = 1 /\ \A k \in Pos(l) : out[k].text = call.orders
        /\ \A k \in 1..Len(out) :
                heap[out[k].by].type = "Enlisted" => out[k].by \in LeavesBelow(call.node)

\* The Division was briefed with one Enlisted directly below it and another
\* below its Squad.
C3_Witness ==
    /\ Briefed
    /\ call.node = 1
    /\ Len(heap) = 6
    /\ Kids(heap[1]) = <<5, 4>>
    /\ Kids(heap[4]) = <<6>>
    /\ Len(out) = 4

(***************************************************************************)
(* C4.  Add appends its arguments, in call order, behind the children the  *)
(* container already has; and in what a returned Brief wrote, for every    *)
(* container below the briefed node, all lines of an earlier child (and of *)
(* everything below it) stand before all lines of a later child, and the   *)
(* container's own single summary line stands after every line written     *)
(* below it.                                                               *)
(***************************************************************************)
C4AddStep ==
    call'.op = "Add" =>
        /\ Kids(heap'[call'.node]) =
             Kids(heap[call'.node]) \o
                (IF heap[call'.node].type = "Enlisted" THEN <<>> ELSE call'.args)
        /\ \A m \in Nodes : m # call'.node => heap'[m] = heap[m]
C4Order ==
    Briefed =>
        \A m \in Sub(call.node) : heap[m].type # "Enlisted" =>
            /\ Cardinality(Pos(m)) = 1
            /\ \A x \in Desc(m) : \A p \in Pos(x), q \in Pos(m) : p < q
            /\ \A i, j \in 1..Len(Kids(heap[m])) : i < j =>
                    \A a \in Sub(Kids(heap[m])[i]), b \in Sub(Kids(heap[m])[j]) :
                        \A p \in Pos(a), q \in Pos(b) : p < q
C4_BroadcastOrder == []C4Order /\ [][C4AddStep]_vars

\* The Division was briefed; Jones was added to it before the Brigade, which
\* holds Smith.
C4_Witness ==
    /\ Briefed
    /\ call.node = 1
    /\ Len(heap) = 6
    /\ Kids(heap[1]) = <<6, 2>>
    /\ Kids(heap[2]) = <<5>>
    /\ Texts(out) = <<call.orders, call.orders, "Briefing 1 Platoons", "Briefing 2 Brigades">>

(***************************************************************************)
(* C5.  With the example hierarchy built (Division "1st" holding Brigade   *)
(* "A" holding Platoon "1" holding Squad "alpha" holding Enlisted "Smith"  *)
(* and "Jones", in that order), Brief("Move out") on the Division writes   *)
(* exactly the six lines of the example, in that order.                    *)
(***************************************************************************)
ExampleBuilt ==
    heap = << [type |-> "Division", name |-> "1st", brigades |-> <<2>>],
              [type |-> "Brigade", name |-> "A", platoons |-> <<3>>],
              [type |-> "Platoon", name |-> "1", squads |-> <<4>>],
              [type |-> "Squad", name |-> "alpha", enlistees |-> <<5, 6>>],
              [type |-> "Enlisted", name |-> "Smith"],
              [type |-> "Enlisted", name |-> "Jones"] >>
C5_ExampleScenario ==
    (ExampleBuilt /\ call = Called("Brief", 1, <<>>, "Move out")) =>
        /\ ~crashed
        /\ Texts(out) = << "Move out", "Move out", "Briefing 2 Enlistees",
                           "Briefing 1 Squads", "Briefing 1 Platoons",
                           "Briefing 1 Brigades" >>

C5_Witness == ExampleBuilt /\ call = Called("Brief", 1, <<>>, "Move out") /\ Len(out) = 6

(***************************************************************************)
(* C6.  Add on an Enlisted, with any arguments, changes no object and      *)
(* fails in no way; and every Brief on an Enlisted writes exactly one line,*)
(* the order, written by that Enlisted.                                    *)
(***************************************************************************)
C6AddStep ==
    (call'.op = "Add" /\ heap[call'.node].type = "Enlisted") =>
        heap' = heap /\ out' = <<>> /\ ~crashed'
C6Brief ==
    (call.op = "Brief" /\ heap[call.node].type = "Enlisted") =>
        ~crashed /\ out = <<Note(call.node, call.orders)>>
C6_LeafAddNoOp == []C6Brief /\ [][C6AddStep]_vars

\* Add was just called on an Enlisted with two arguments, itself among them.
C6_Witness ==
    /\ call.op = "Add"
    /\ heap[call.node].type = "Enlisted"
    /\ Len(call.args) = 2
    /\ call.args[1] = call.node

(***************************************************************************)
(* C7.  Every summary line a returned Brief wrote carries the number of    *)
(* direct children of the container that wrote it, in the wording of that  *)
(* container's type; the briefed container's summary is the last line, and *)
(* the only one when it has no children.  Add lengthens the child sequence *)
(* by the number of its arguments, so Add with no argument changes nothing.*)
(***************************************************************************)
C7Count ==
    Briefed =>
        /\ \A k \in 1..Len(out) :
              LET m == out[k].by IN
              heap[m].type # "Enlisted" =>
                  out[k].text = SummaryText(heap[m].type, Len(Kids(heap[m])))
        /\ heap[call.node].type # "Enlisted" =>
              /\ out # <<>>
              /\ out[Len(out)].by = call.node
              /\ Kids(heap[call.node]) = <<>> =>
                    Texts(out) = <<SummaryText(heap[call.node].type, 0)>>
C7AddStep ==
    (call'.op = "Add" /\ heap[call'.node].type # "Enlisted") =>
        /\ Len(Kids(heap'[call'.node])) = Len(Kids(heap[call'.node])) + Len(call'.args)
        /\ call'.args = <<>> => heap' = heap
        /\ ~crashed'
C7_SummaryCount == []C7Count /\ [][C7AddStep]_vars

\* The Division was briefed: it holds the Brigade alone, which holds the
\* empty Platoon and Smith.
C7_Witness ==
    /\ Briefed
    /\ call.node = 1
    /\ Kids(heap[1]) = <<2>>
    /\ Kids(heap[2]) = <<3, 5>>
    /\ Kids(heap[3]) = <<>>
    /\ Texts(out) = <<"Briefing 0 Squads", call.orders, "Briefing 2 Platoons",
                      "Briefing 1 Brigades">>

(***************************************************************************)
(* C8.  The objects form a forest: no object is below itself, and no       *)
(* object is referenced by two child references (of one container or of    *)
(* two).                                                                   *)
(***************************************************************************)
C8_Forest ==
    /\ \A n \in Nodes : n \notin Desc(n)
    /\ \A x \in Nodes : Occurrences(Nodes, x) <= 1

(***************************************************************************)
(* C9.  Every Brief call returns, and never nests more frames than there   *)
(* are hierarchy levels.                                                   *)
(***************************************************************************)
C9_BriefBounded == call.op = "Brief" => (~crashed /\ depth <= Levels)

(***************************************************************************)
(* C10. Brief retains no state: a Brief call changes no object, and a Brief*)
(* call that follows another on the same node writes what the earlier one  *)
(* wrote, with the new order in place of the old one in the lines of the   *)
(* Enlisted (so the same lines when the order is the same).                *)
(***************************************************************************)
Reworded(lines, orders) ==
    [k \in 1..Len(lines) |->
        IF heap[lines[k].by].type = "Enlisted" THEN Note(lines[k].by, orders)
        ELSE lines[k]]
C10Step ==
    call'.op = "Brief" =>
        /\ heap' = heap
        /\ (Briefed /\ call'.node = call.node) =>
                ~crashed' /\ out' = Reworded(out, call'.orders)
C10_BriefStateless == [][C10Step]_vars

\* The Division was briefed with the whole example hierarchy below it.
C10_Witness ==
    /\ Briefed
    /\ call.node = 1
    /\ ExampleBuilt
    /\ call.orders = "Hold"

====
